---- MODULE Spec2Model ----
(***************************************************************************)
(* Model of the decode and search subcommands of otlp-toolkit              *)
(* (src/src/cmd_decode.rs, src/src/cmd_search.rs).                         *)
(*                                                                         *)
(* Text is a sequence of one-character strings, a byte sequence is a       *)
(* sequence of integers in 0..255, Option<T> is a sequence of length 0 or  *)
(* 1, and a Result is a record [ok |-> BOOLEAN, val |-> ...].              *)
(***************************************************************************)
EXTENDS Integers, Sequences, FiniteSets, TLC

\* ------------------------------------------------------------------ bounds
\* Longest input, in lines, of a line-oriented run.
MaxLines == 2

\* ------------------------------------------------------------- small helpers
Ok(v) == [ok |-> TRUE, val |-> v]

Err(e) == [ok |-> FALSE, val |-> e]

Some(v) == <<v>>

None == <<>>

Min(a, b) == IF a < b THEN a ELSE b

Tail2(s, n) == SubSeq(s, n + 1, Len(s))

\* --------------------------------------------------------------- hex crate
HexDigits ==
  <<"0", "1", "2", "3", "4", "5", "6", "7", "8", "9", "a", "b", "c", "d", "e", "f">>

\* span.trace_id.encode_hex::<String>(): two lowercase digits per byte.
RECURSIVE encode_hex(_)
encode_hex(bytes) ==
  IF bytes = <<>> THEN <<>>
  ELSE <<HexDigits[(Head(bytes) \div 16) + 1], HexDigits[(Head(bytes) % 16) + 1]>>
       \o encode_hex(Tail(bytes))

\* ------------------------------------------------------------ base64 crate
\* The STANDARD alphabet; the pad symbol is "=".
B64Alphabet ==
  <<"A", "B", "C", "D", "E", "F", "G", "H", "I", "J", "K", "L", "M",
    "N", "O", "P", "Q", "R", "S", "T", "U", "V", "W", "X", "Y", "Z",
    "a", "b", "c", "d", "e", "f", "g", "h", "i", "j", "k", "l", "m",
    "n", "o", "p", "q", "r", "s", "t", "u", "v", "w", "x", "y", "z",
    "0", "1", "2", "3", "4", "5", "6", "7", "8", "9", "+", "/">>

IsB64Sym(c) == \E i \in 1..64 : B64Alphabet[i] = c

SextetOf(c) == (CHOOSE i \in 1..64 : B64Alphabet[i] = c) - 1

\* Number of trailing pad symbols that decoding strips (at most two).
NumPad(text) ==
  IF Len(text) >= 1 /\ text[Len(text)] = "="
  THEN IF Len(text) >= 2 /\ text[Len(text) - 1] = "=" THEN 2 ELSE 1
  ELSE 0

\* Bytes of a run of sextets: whole quads give three bytes, a final group of
\* two or three sextets gives one or two.
RECURSIVE SextetsToBytes(_)
SextetsToBytes(sx) ==
  IF Len(sx) < 2 THEN <<>>
  ELSE LET b0 == sx[1] * 4 + (sx[2] \div 16)
       IN  IF Len(sx) = 2 THEN <<b0>>
           ELSE LET b1 == (sx[2] % 16) * 16 + (sx[3] \div 4)
                IN  IF Len(sx) = 3 THEN <<b0, b1>>
                    ELSE <<b0, b1, (sx[3] % 4) * 64 + sx[4]>>
                         \o SextetsToBytes(Tail2(sx, 4))

\* Bits of the last sextet that belong to no byte; STANDARD rejects them
\* when they are not zero (decode_allow_trailing_bits is off).
TrailingBits(sx) ==
  IF Len(sx) % 4 = 2 THEN sx[Len(sx)] % 16
  ELSE IF Len(sx) % 4 = 3 THEN sx[Len(sx)] % 4
  ELSE 0

\* The data symbols (text without its padding) and the number p of pad
\* symbols stripped, checked and turned into bytes.
DecodeData(data, p) ==
  IF \E i \in 1..Len(data) : ~IsB64Sym(data[i]) THEN Err("InvalidByte")
  ELSE IF Len(data) % 4 = 1 THEN Err("InvalidLength")
  ELSE IF p > 0 /\ (Len(data) % 4 = 0 \/ (Len(data) + p) % 4 # 0)
  THEN Err("InvalidByte")
  ELSE IF TrailingBits([i \in 1..Len(data) |-> SextetOf(data[i])]) # 0
  THEN Err("InvalidLastSymbol")
  ELSE Ok(SextetsToBytes([i \in 1..Len(data) |-> SextetOf(data[i])]))

\* base64::decode_config(payload, base64::STANDARD).  A symbol outside the
\* alphabet (a pad symbol before the end included) is InvalidByte, a
\* data length of 1 mod 4 is InvalidLength, non-zero trailing bits are
\* InvalidLastSymbol.  Padding is accepted when present and not required.
decode_config(text) ==
  DecodeData(SubSeq(text, 1, Len(text) - NumPad(text)), NumPad(text))

\* The canonical padded encoding of a byte sequence (what a producer of the
\* input writes on a line); used to build the inputs of the model.
RECURSIVE Encode64(_)
Encode64(bytes) ==
  IF bytes = <<>> THEN <<>>
  ELSE LET s1 == B64Alphabet[(bytes[1] \div 4) + 1]
       IN  IF Len(bytes) = 1
           THEN <<s1, B64Alphabet[(bytes[1] % 4) * 16 + 1], "=", "=">>
           ELSE LET s2 == B64Alphabet[(bytes[1] % 4) * 16 + (bytes[2] \div 16) + 1]
                IN  IF Len(bytes) = 2
                    THEN <<s1, s2, B64Alphabet[(bytes[2] % 16) * 4 + 1], "=">>
                    ELSE <<s1, s2,
                           B64Alphabet[(bytes[2] % 16) * 4 + (bytes[3] \div 64) + 1],
                           B64Alphabet[(bytes[3] % 64) + 1]>>
                         \o Encode64(Tail2(bytes, 3))

\* ------------------------------------------------- prost: the wire format
\* Wire types of a field key (key % 8); 6 and 7 are not wire types.
WtVarint == 0

WtFixed64 == 1

WtLen == 2

WtStartGroup == 3

WtEndGroup == 4

WtFixed32 == 5

\* A varint is at most ten bytes long.
MaxVarintLen == 10

\* Values at or above this are not told apart: no tag of a schema and no
\* length of an input of the model comes near it.
VarintCap == 268435456

\* Index of the byte that ends the varint at the front of b (the first one
\* below 128 among the first ten), 0 when there is none.
RECURSIVE VarintEnd(_, _)
VarintEnd(b, i) ==
  IF i > Len(b) \/ i > MaxVarintLen THEN 0
  ELSE IF b[i] < 128 THEN i
  ELSE VarintEnd(b, i + 1)

\* Little-endian base-128 value of the first n bytes, capped at VarintCap.
RECURSIVE VarintVal(_, _)
VarintVal(b, n) ==
  IF n = 0 THEN 0
  ELSE IF n > 4 THEN (IF b[n] % 128 # 0 THEN VarintCap ELSE VarintVal(b, n - 1))
  ELSE LET hi == VarintVal(b, n - 1)
           w  == IF n = 1 THEN 1 ELSE IF n = 2 THEN 128
                 ELSE IF n = 3 THEN 16384 ELSE 2097152
       IN  Min(VarintCap, hi + (b[n] % 128) * w)

\* The varint at the front of b, given the index n of its last byte.
VarintAt(b, n) ==
  IF n = 0 THEN Err("invalid varint")
  ELSE Ok([val |-> VarintVal(b, n), n |-> n])

\* prost::encoding::decode_varint: value and number of bytes consumed.
decode_varint(b) == VarintAt(b, VarintEnd(b, 1))

\* TRUE when the varint of n bytes at the front of b exceeds u32::MAX.
AboveU32(b, n) ==
  \/ n >= 5 /\ b[5] % 128 >= 16
  \/ \E i \in 6..n : b[i] % 128 # 0

\* The key that the varint v at the front of b stands for.
KeyOf(b, v) ==
  IF ~v.ok THEN v
  ELSE IF AboveU32(b, v.val.n) THEN Err("invalid key value")
  ELSE IF b[1] % 8 > WtFixed32 THEN Err("invalid wire type value")
  ELSE IF v.val.val \div 8 = 0 THEN Err("invalid tag value: 0")
  ELSE Ok([tag |-> v.val.val \div 8, wt |-> b[1] % 8, n |-> v.val.n])

\* prost::encoding::decode_key: tag, wire type and bytes consumed.
decode_key(b) == KeyOf(b, decode_varint(b))

\* The payload that the length v at the front of b delimits.
Delimited(b, v) ==
  IF ~v.ok THEN v
  ELSE IF v.val.val > Len(b) - v.val.n THEN Err("buffer underflow")
  ELSE Ok([bytes |-> SubSeq(b, v.val.n + 1, v.val.n + v.val.val),
           n |-> v.val.n + v.val.val])

\* A length-delimited value at the front of b: the payload and the bytes
\* consumed, or buffer underflow when the length exceeds what remains.
decode_len(b) == Delimited(b, decode_varint(b))

\* String fields must be UTF-8.  Only the one-byte sequences are accepted
\* here; the inputs of the model hold no multi-byte sequence.
IsUtf8(bytes) == \A i \in 1..Len(bytes) : bytes[i] < 128

\* The bytes a decoded value v took, or its error.
Consumed(v) == IF v.ok THEN Ok(v.val.n) ELSE v

RECURSIVE skip_field(_, _, _)
RECURSIVE skip_group(_, _)
\* n bytes of a group are skipped and r is the outcome for the rest of it.
GroupRest(n, r) == IF r.ok THEN Ok(n + r.val) ELSE r

\* Inside a group, a field of key k was skipped with outcome s.
GroupField(tag, b, k, s) ==
  IF ~s.ok THEN s
  ELSE GroupRest(k.val.n + s.val, skip_group(tag, Tail2(b, k.val.n + s.val)))

\* Inside a group, the next key is k: the end of the group or one more
\* field to skip.
GroupKey(tag, b, k) ==
  IF ~k.ok THEN k
  ELSE IF k.val.wt = WtEndGroup
  THEN IF k.val.tag = tag THEN Ok(k.val.n) ELSE Err("unexpected end group tag")
  ELSE GroupField(tag, b, k, skip_field(k.val.wt, k.val.tag, Tail2(b, k.val.n)))

\* The body of an unknown group: fields up to the end-group key of the
\* same tag.
skip_group(tag, b) == GroupKey(tag, b, decode_key(b))

\* prost::encoding::skip_field for an unknown tag: bytes consumed.
skip_field(wt, tag, b) ==
  IF wt = WtVarint THEN Consumed(decode_varint(b))
  ELSE IF wt = WtFixed64
  THEN IF Len(b) >= 8 THEN Ok(8) ELSE Err("buffer underflow")
  ELSE IF wt = WtFixed32
  THEN IF Len(b) >= 4 THEN Ok(4) ELSE Err("buffer underflow")
  ELSE IF wt = WtLen THEN Consumed(decode_len(b))
  ELSE IF wt = WtStartGroup THEN skip_group(tag, b)
  ELSE Err("unexpected end group tag")

\* ------------------------------------------------ the message shapes
\* The concrete shapes of DecodeType, in declaration order after Direct.
Shapes ==
  <<"Span", "Metric", "LogRecord", "ScopeSpans", "ScopeMetrics", "ScopeLogs",
    "Resource", "ResourceSpans", "ResourceMetrics", "ResourceLogs",
    "ExportTraceServiceRequest", "ExportMetricsServiceRequest",
    "ExportLogsServiceRequest">>

\* enum DecodeType, in declaration order (DecodeType::iter()).
DecodeType == <<"Direct">> \o Shapes

F(num, kind, sub) == [num |-> num, kind |-> kind, sub |-> sub]

\* The fields of each message: number, kind (bytes, string, varint,
\* fixed64, fixed32 or msg) and, for msg, the message nested in it.  The
\* data of a metric is kept as a message of unknown fields ("Opaque").
Fields(shape) ==
  CASE shape = "ExportTraceServiceRequest" -> {F(1, "msg", "ResourceSpans")}
    [] shape = "ExportMetricsServiceRequest" -> {F(1, "msg", "ResourceMetrics")}
    [] shape = "ExportLogsServiceRequest" -> {F(1, "msg", "ResourceLogs")}
    [] shape = "ResourceSpans" ->
         {F(1, "msg", "Resource"), F(2, "msg", "ScopeSpans"), F(3, "string", "")}
    [] shape = "ResourceMetrics" ->
         {F(1, "msg", "Resource"), F(2, "msg", "ScopeMetrics"), F(3, "string", "")}
    [] shape = "ResourceLogs" ->
         {F(1, "msg", "Resource"), F(2, "msg", "ScopeLogs"), F(3, "string", "")}
    [] shape = "ScopeSpans" ->
         {F(1, "msg", "InstrumentationScope"), F(2, "msg", "Span"), F(3, "string", "")}
    [] shape = "ScopeMetrics" ->
         {F(1, "msg", "InstrumentationScope"), F(2, "msg", "Metric"), F(3, "string", "")}
    [] shape = "ScopeLogs" ->
         {F(1, "msg", "InstrumentationScope"), F(2, "msg", "LogRecord"), F(3, "string", "")}
    [] shape = "Resource" -> {F(1, "msg", "KeyValue"), F(2, "varint", "")}
    [] shape = "InstrumentationScope" ->
         {F(1, "string", ""), F(2, "string", ""), F(3, "msg", "KeyValue"),
          F(4, "varint", "")}
    [] shape = "Span" ->
         {F(1, "bytes", ""), F(2, "bytes", ""), F(3, "string", ""), F(4, "bytes", ""),
          F(5, "string", ""), F(6, "varint", ""), F(7, "fixed64", ""),
          F(8, "fixed64", ""), F(9, "msg", "KeyValue"), F(10, "varint", ""),
          F(11, "msg", "Event"), F(12, "varint", ""), F(13, "msg", "Link"),
          F(14, "varint", ""), F(15, "msg", "Status")}
    [] shape = "Event" ->
         {F(1, "fixed64", ""), F(2, "string", ""), F(3, "msg", "KeyValue"),
          F(4, "varint", "")}
    [] shape = "Link" ->
         {F(1, "bytes", ""), F(2, "bytes", ""), F(3, "string", ""),
          F(4, "msg", "KeyValue"), F(5, "varint", "")}
    [] shape = "Status" -> {F(2, "string", ""), F(3, "varint", "")}
    [] shape = "Metric" ->
         {F(1, "string", ""), F(2, "string", ""), F(3, "string", ""),
          F(5, "msg", "Opaque"), F(7, "msg", "Opaque"), F(9, "msg", "Opaque"),
          F(10, "msg", "Opaque"), F(11, "msg", "Opaque")}
    [] shape = "LogRecord" ->
         {F(1, "fixed64", ""), F(2, "varint", ""), F(3, "string", ""),
          F(5, "msg", "AnyValue"), F(6, "msg", "KeyValue"), F(7, "varint", ""),
          F(8, "fixed32", ""), F(9, "bytes", ""), F(10, "bytes", ""),
          F(11, "fixed64", "")}
    [] shape = "KeyValue" -> {F(1, "string", ""), F(2, "msg", "AnyValue")}
    [] shape = "AnyValue" ->
         {F(1, "string", ""), F(2, "varint", ""), F(3, "varint", ""),
          F(4, "fixed64", ""), F(5, "msg", "ArrayValue"),
          F(6, "msg", "KeyValueList"), F(7, "bytes", "")}
    [] shape = "ArrayValue" -> {F(1, "msg", "AnyValue")}
    [] shape = "KeyValueList" -> {F(1, "msg", "KeyValue")}
    [] OTHER -> {}

\* The wire type a field of this kind must arrive with.
WireTypeOf(kind) ==
  CASE kind = "varint" -> WtVarint
    [] kind = "fixed64" -> WtFixed64
    [] kind = "fixed32" -> WtFixed32
    [] OTHER -> WtLen

RECURSIVE decode(_, _)
\* A field that is dropped (entry <<>>) or kept as [num, val].
Dropped(s) == IF s.ok THEN Ok([entry |-> <<>>, n |-> s.val]) ELSE s

Kept(tag, val, n) == Ok([entry |-> <<[num |-> tag, val |-> val]>>, n |-> n])

\* A scalar field whose value takes the bytes s at the front of b.
Scalar(tag, b, s) == IF s.ok THEN Kept(tag, SubSeq(b, 1, s.val), s.val) ELSE s

\* A nested message field of n bytes whose payload decoded as m.
Nested(tag, n, m) == IF m.ok THEN Kept(tag, m.val, n) ELSE m

\* A bytes, string or message field with the delimited payload v.
LenValue(f, tag, v) ==
  IF ~v.ok THEN v
  ELSE IF f.kind = "string" /\ ~IsUtf8(v.val.bytes)
  THEN Err("invalid string value: data is not UTF-8 encoded")
  ELSE IF f.kind = "msg" THEN Nested(tag, v.val.n, decode(f.sub, v.val.bytes))
  ELSE Kept(tag, v.val.bytes, v.val.n)

\* A field f of the schema arriving with wire type wt.
KnownField(f, tag, wt, b) ==
  IF wt # WireTypeOf(f.kind) THEN Err("invalid wire type")
  ELSE IF f.kind \in {"varint", "fixed64", "fixed32"}
  THEN Scalar(tag, b, skip_field(wt, tag, b))
  ELSE LenValue(f, tag, decode_len(b))

\* Message::merge_field: the value of one field at the front of b; a tag
\* the shape does not know is skipped.
merge_field(shape, tag, wt, b) ==
  IF \A f \in Fields(shape) : f.num # tag
  THEN Dropped(skip_field(wt, tag, b))
  ELSE KnownField(CHOOSE f \in Fields(shape) : f.num = tag, tag, wt, b)

\* The entry of a field put in front of the decoded rest of the message.
Prepend(entry, more) == IF more.ok THEN Ok(entry \o more.val) ELSE more

\* After a field with outcome r, the rest of the message is decoded.
AfterField(shape, rest, r) ==
  IF ~r.ok THEN r
  ELSE Prepend(r.val.entry, decode(shape, Tail2(rest, r.val.n)))

\* After the key k, the field it announces is merged.
AfterKey(shape, b, k) ==
  IF ~k.ok THEN k
  ELSE AfterField(shape, Tail2(b, k.val.n),
                  merge_field(shape, k.val.tag, k.val.wt, Tail2(b, k.val.n)))

\* Message::decode(payload) of a shape: the known fields in wire order, each
\* as [num, val] where val is the nested message of a msg field and the
\* bytes of the value otherwise; unknown fields are skipped.  Any violation
\* of the wire format fails the whole decode.
decode(shape, b) ==
  IF b = <<>> THEN Ok(<<>>) ELSE AfterKey(shape, b, decode_key(b))

\* The values of a repeated field of a decoded message, in wire order.
RECURSIVE Repeated(_, _)
Repeated(msg, num) ==
  IF msg = <<>> THEN <<>>
  ELSE (IF Head(msg).num = num THEN <<Head(msg).val>> ELSE <<>>)
       \o Repeated(Tail(msg), num)

\* The value of a singular bytes field: the last one on the wire, empty
\* when the field is absent.
Singular(msg, num) ==
  LET vs == Repeated(msg, num) IN IF vs = <<>> THEN <<>> ELSE vs[Len(vs)]

\* ------------------------------------------------ what a producer encodes
\* One length-delimited field.
LenField(num, bytes) == <<num * 8 + WtLen, Len(bytes)>> \o bytes

\* A span that carries only a trace id (no field when the id is empty).
EncSpan(id) == IF id = <<>> THEN <<>> ELSE LenField(1, id)

\* A scope is given as its sequence of trace ids, a resource as its
\* sequence of scopes, a request as its sequence of resources.
RECURSIVE EncScopeSpans(_)
EncScopeSpans(ids) ==
  IF ids = <<>> THEN <<>>
  ELSE LenField(2, EncSpan(Head(ids))) \o EncScopeSpans(Tail(ids))

RECURSIVE EncResourceSpans(_)
EncResourceSpans(scopes) ==
  IF scopes = <<>> THEN <<>>
  ELSE LenField(2, EncScopeSpans(Head(scopes))) \o EncResourceSpans(Tail(scopes))

RECURSIVE EncRequest(_)
EncRequest(resources) ==
  IF resources = <<>> THEN <<>>
  ELSE LenField(1, EncResourceSpans(Head(resources))) \o EncRequest(Tail(resources))

\* ------------------------------------------------------------ the effects
\* What a handler does to the outside, in order: a line on standard output
\* (println!) or standard error (eprintln!), a file written, a call of the
\* codec.  data is the thing printed, written or decoded.
Ev(ch, kind, data) == [ch |-> ch, kind |-> kind, data |-> data]

\* The outcome of a handler: Ok(()) or Err(err), and its effects.
Done(out) == [ok |-> TRUE, err |-> "", out |-> out]

Fail(err, out) == [ok |-> FALSE, err |-> err, out |-> out]

\* ------------------------------------------------------------ cmd_decode.rs
\* print_stuffs: one println! of the Debug rendering, pretty or compact.
print_stuffs(obj, pretty) ==
  <<Ev("stdout", "msg", [obj |-> obj, pretty |-> pretty])>>

\* A call of the codec of a shape, as an effect.
Codec(shape, payload) == <<Ev("codec", shape, payload)>>

\* Mutant of Printed: what the codec had decoded up to the violation is
\* printed before the error returns.
Printed_Partial(shape, payload, pretty, m) ==
  IF m.ok
  THEN Done(Codec(shape, payload)
            \o print_stuffs([shape |-> shape, body |-> m.val], pretty))
  ELSE Fail(m.val, Codec(shape, payload)
                   \o print_stuffs([shape |-> shape, body |-> <<>>], pretty))

\* print_stuffs(m?, pretty) for the outcome m of the codec: its error
\* returns before anything is printed.
Printed(shape, payload, pretty, m) ==
  IF m.ok
  THEN Done(Codec(shape, payload)
            \o print_stuffs([shape |-> shape, body |-> m.val], pretty))
  ELSE Fail(m.val, Codec(shape, payload))

\* print_stuffs(proto::...::decode(payload)?, pretty): the codec runs first.
PrintDecoded(shape, payload, pretty) ==
  Printed(shape, payload, pretty, decode(shape, payload))

\* Mutant of PrintDirect: the raw bytes are parsed as the default shape
\* before they are printed.
PrintDirect_Parsed(payload, pretty) ==
  PrintDecoded("ExportTraceServiceRequest", payload, pretty)

\* The Direct arm: print_stuffs(payload, pretty) on the raw bytes; no codec
\* is called and there is nothing that can fail.
PrintDirect(payload, pretty) ==
  Done(print_stuffs([shape |-> "Direct", body |-> payload], pretty))

\* Mutant of decode_struct: the ExportMetricsServiceRequest arm calls the
\* codec of ExportTraceServiceRequest.
decode_struct_Swapped(name, payload, pretty) ==
  IF name = "Direct" THEN PrintDirect(payload, pretty)
  ELSE IF name = "ExportMetricsServiceRequest"
  THEN PrintDecoded("ExportTraceServiceRequest", payload, pretty)
  ELSE PrintDecoded(name, payload, pretty)

decode_struct(name, payload, pretty) ==
  CASE name = "Direct" -> PrintDirect(payload, pretty)
    [] name = "Span" -> PrintDecoded("Span", payload, pretty)
    [] name = "Metric" -> PrintDecoded("Metric", payload, pretty)
    [] name = "LogRecord" -> PrintDecoded("LogRecord", payload, pretty)
    [] name = "ScopeSpans" -> PrintDecoded("ScopeSpans", payload, pretty)
    [] name = "ScopeMetrics" -> PrintDecoded("ScopeMetrics", payload, pretty)
    [] name = "ScopeLogs" -> PrintDecoded("ScopeLogs", payload, pretty)
    [] name = "Resource" -> PrintDecoded("Resource", payload, pretty)
    [] name = "ResourceSpans" -> PrintDecoded("ResourceSpans", payload, pretty)
    [] name = "ResourceMetrics" -> PrintDecoded("ResourceMetrics", payload, pretty)
    [] name = "ResourceLogs" -> PrintDecoded("ResourceLogs", payload, pretty)
    [] name = "ExportTraceServiceRequest" ->
         PrintDecoded("ExportTraceServiceRequest", payload, pretty)
    [] name = "ExportMetricsServiceRequest" ->
         PrintDecoded("ExportMetricsServiceRequest", payload, pretty)
    [] name = "ExportLogsServiceRequest" ->
         PrintDecoded("ExportLogsServiceRequest", payload, pretty)

\* The call of the dispatcher, as an effect.
Dispatch(bytes) == <<Ev("call", "decode_struct", bytes)>>

\* format!("otk.{rs}.bin") and the file std::fs::write creates.
SideFile(rs, bytes) == [name |-> "otk." \o rs \o ".bin", bytes |-> bytes]

\* Mutant of Quarantine: the dispatcher's error is returned after the side
\* file is written, as decode_struct(..)? would.
Quarantine_Propagate(bytes, rs, writeOk, r) ==
  IF r.ok THEN Done(Dispatch(bytes) \o r.out)
  ELSE IF writeOk
  THEN Fail(r.err, Dispatch(bytes) \o r.out
                   \o <<Ev("stderr", "error during decoding", r.err),
                        Ev("file", "write", SideFile(rs, bytes)),
                        Ev("stderr", "data dumped as", SideFile(rs, bytes).name)>>)
  ELSE Fail("io", Dispatch(bytes) \o r.out
                  \o <<Ev("stderr", "error during decoding", r.err),
                       Ev("file", "write failed", SideFile(rs, bytes))>>)

\* Mutant of Quarantine: the name of the side file is echoed before the
\* file is written, hence also when the write fails.
Quarantine_EchoFirst(bytes, rs, writeOk, r) ==
  IF r.ok THEN Done(Dispatch(bytes) \o r.out)
  ELSE IF writeOk
  THEN Done(Dispatch(bytes) \o r.out
            \o <<Ev("stderr", "error during decoding", r.err),
                 Ev("stderr", "data dumped as", SideFile(rs, bytes).name),
                 Ev("file", "write", SideFile(rs, bytes))>>)
  ELSE Fail("io", Dispatch(bytes) \o r.out
                  \o <<Ev("stderr", "error during decoding", r.err),
                       Ev("stderr", "data dumped as", SideFile(rs, bytes).name),
                       Ev("file", "write failed", SideFile(rs, bytes))>>)

\* Mutant of Quarantine: the outcome of std::fs::write is dropped, so a
\* failed write is not an error of the line.
Quarantine_IgnoreWrite(bytes, rs, writeOk, r) ==
  IF r.ok THEN Done(Dispatch(bytes) \o r.out)
  ELSE IF writeOk
  THEN Done(Dispatch(bytes) \o r.out
            \o <<Ev("stderr", "error during decoding", r.err),
                 Ev("file", "write", SideFile(rs, bytes)),
                 Ev("stderr", "data dumped as", SideFile(rs, bytes).name)>>)
  ELSE Done(Dispatch(bytes) \o r.out
            \o <<Ev("stderr", "error during decoding", r.err),
                 Ev("file", "write failed", SideFile(rs, bytes))>>)

\* The match on the outcome r of decode_struct(name, &bs, pretty): Ok goes
\* through; Err is reported, the bytes are written to the side file and its
\* name is echoed, and only a failed write is an error of the line.
Quarantine(bytes, rs, writeOk, r) ==
  IF r.ok THEN Done(Dispatch(bytes) \o r.out)
  ELSE IF writeOk
  THEN Done(Dispatch(bytes) \o r.out
            \o <<Ev("stderr", "error during decoding", r.err),
                 Ev("file", "write", SideFile(rs, bytes)),
                 Ev("stderr", "data dumped as", SideFile(rs, bytes).name)>>)
  ELSE Fail("io", Dispatch(bytes) \o r.out
                  \o <<Ev("stderr", "error during decoding", r.err),
                       Ev("file", "write failed", SideFile(rs, bytes))>>)

\* decode_struct_b64 after base64::decode_config(..)? gave bs.
Decoded64(name, pretty, rs, writeOk, bs) ==
  IF ~bs.ok THEN Fail(bs.val, <<>>)
  ELSE Quarantine(bs.val, rs, writeOk, decode_struct(name, bs.val, pretty))

\* decode_struct_b64.  rs is the random suffix drawn for the side file and
\* writeOk tells whether std::fs::write succeeds; both matter only when the
\* dispatcher fails.
decode_struct_b64(name, payload, pretty, rs, writeOk) ==
  Decoded64(name, pretty, rs, writeOk, decode_config(payload))

\* ------------------------------------------------------------ cmd_search.rs
RECURSIVE SpanIds(_)
SpanIds(spans) ==
  IF spans = <<>> THEN <<>>
  ELSE <<encode_hex(Singular(Head(spans), 1))>> \o SpanIds(Tail(spans))

RECURSIVE ScopeIds(_)
ScopeIds(scopes) ==
  IF scopes = <<>> THEN <<>>
  ELSE SpanIds(Repeated(Head(scopes), 2)) \o ScopeIds(Tail(scopes))

RECURSIVE ResourceIds(_)
ResourceIds(resources) ==
  IF resources = <<>> THEN <<>>
  ELSE ScopeIds(Repeated(Head(resources), 2)) \o ResourceIds(Tail(resources))

\* The hex trace ids the nested flat_map yields, in iteration order:
\* resource_spans, then scope_spans, then spans.
TraceIds(body) == ResourceIds(Repeated(body, 1))

\* Index of the first element of ids equal to id, 0 when there is none.
FirstMatch(ids, id) ==
  IF \E i \in 1..Len(ids) : ids[i] = id
  THEN CHOOSE i \in 1..Len(ids) : ids[i] = id /\ \A j \in 1..(i - 1) : ids[j] # id
  ELSE 0

\* The spans the lazy iterator evaluates: any() stops at the first true.
Visited(ids, id) ==
  IF FirstMatch(ids, id) = 0 THEN ids ELSE SubSeq(ids, 1, FirstMatch(ids, id))

\* The request as println! writes it, pretty or compact.
PrintBody(body, search) ==
  Ev("stdout", "msg",
     [obj |-> [shape |-> "ExportTraceServiceRequest", body |-> body],
      pretty |-> search.pretty])

PrintIds(ids) == [i \in 1..Len(ids) |-> Ev("stdout", "trace_id", ids[i])]

\* Mutant of Reported: the request is printed for every span that matches
\* (the print sits inside the closure).
Reported_PerSpan(ids, body, search) ==
  (IF search.verbose THEN PrintIds(ids) ELSE <<>>)
  \o [k \in 1..Cardinality({i \in 1..Len(ids) : ids[i] = search.trace_id[1]}) |->
        PrintBody(body, search)]

\* Mutant of Reported: the request is printed whether or not a span matched
\* (the test of found is lost).
Reported_Always(ids, body, search) ==
  (IF search.verbose THEN PrintIds(Visited(ids, search.trace_id[1])) ELSE <<>>)
  \o <<PrintBody(body, search)>>

\* The search over the trace ids of the spans and the report: the ids
\* visited are printed in verbose mode, and the request when one was found.
Reported(ids, body, search) ==
  (IF search.verbose THEN PrintIds(Visited(ids, search.trace_id[1])) ELSE <<>>)
  \o (IF FirstMatch(ids, search.trace_id[1]) # 0
      THEN <<PrintBody(body, search)>> ELSE <<>>)

\* Mutant of Report: without a query every request passes through to
\* standard output.
Report_PassThrough(body, search) ==
  IF search.trace_id # None THEN Reported(TraceIds(body), body, search)
  ELSE <<PrintBody(body, search)>>

\* The part of process after the request is decoded.
Report(body, search) ==
  IF search.trace_id # None THEN Reported(TraceIds(body), body, search) ELSE <<>>

\* process after ExportTraceServiceRequest::decode(&bs)? gave body.
Searched(search, bytes, body) ==
  IF ~body.ok THEN Fail(body.val, Codec("ExportTraceServiceRequest", bytes))
  ELSE Done(Codec("ExportTraceServiceRequest", bytes) \o Report(body.val, search))

\* process after base64::decode_config(..)? gave bs.
Searched64(search, bs) ==
  IF ~bs.ok THEN Fail(bs.val, <<>>)
  ELSE Searched(search, bs.val, decode("ExportTraceServiceRequest", bs.val))

\* process(payload, &search).
process(payload, search) == Searched64(search, decode_config(payload))

\* ------------------------------------------------------------- the inputs
\* Trace ids (two bytes stand for the sixteen of a real id).
IdA == <<1, 171>>

IdB == <<255, 16>>

\* A line as lines() yields it: Ok(text), or Err when the read fails or the
\* line is not UTF-8.
IoErrLine == Err(<<>>)

BadBase64 == <<"a", "!", "k", "=">>

\* Valid base64 of one byte that no shape decodes (an unterminated varint).
BadWire == Encode64(<<255>>)

\* Request A: one span, id A.
RequestA == EncRequest(<< << <<IdA>> >> >>)

\* Request A|B: one resource, two scopes, spans A | B.
RequestAB == EncRequest(<< << <<IdA>>, <<IdB>> >> >>)

\* Request B||BAA: two resources, spans B || B A A.
RequestBBAA == EncRequest(<< << <<IdB>> >>, << <<IdB, IdA, IdA>> >> >>)

\* A metrics request: one resource, one scope, one metric named "m".
RequestM == LenField(1, LenField(2, LenField(2, LenField(1, <<109>>))))

\* The lines of a streaming decode run.
DecodeLines ==
  {Ok(Encode64(RequestA)), Ok(<<>>), Ok(BadWire), Ok(BadBase64), IoErrLine}

\* The lines of a search run.
SearchLines ==
  {Ok(Encode64(RequestAB)), Ok(Encode64(RequestBBAA)), Ok(<<>>), Ok(BadWire),
   Ok(BadBase64), IoErrLine}

\* The contents of a binary input.
BinaryContents == {<<>>, RequestA, RequestM, EncSpan(IdA), <<255>>, <<10, 5, 1>>}

\* --trace-id: absent, the id of spans, or the all-zero id of no span.
Queries == {None, Some(encode_hex(IdA)), Some(encode_hex(<<0, 0>>))}

\* The random suffixes the model draws: seven alphanumeric characters.
Suffixes == {"aB3dE5g", "Zz9yY8x"}

FileNames == {"otk." \o rs \o ".bin" : rs \in Suffixes}

SeqsUpTo(S, n) == UNION {[1..k -> S] : k \in 0..n}

\* The sources of a line-oriented run: standard input or a file holding the
\* lines, or a file that cannot be opened.
LineSources(Lines) ==
  {[input |-> i, openable |-> TRUE, lines |-> ls, bytes |-> <<>>] :
     i \in {"-", "in.b64"}, ls \in SeqsUpTo(Lines, MaxLines)}
  \cup {[input |-> "in.b64", openable |-> FALSE, lines |-> <<>>, bytes |-> <<>>]}

BinarySources ==
  {[input |-> i, openable |-> TRUE, lines |-> <<>>, bytes |-> b] :
     i \in {"-", "in.bin"}, b \in BinaryContents}
  \cup {[input |-> "in.bin", openable |-> FALSE, lines |-> <<>>, bytes |-> <<>>]}

\* --------------------------------------------------------------- the state
VARIABLES
  cmd,      \* the subcommand: "decode" or "search"
  args,     \* its parsed arguments (struct Decode or struct Search)
  source,   \* the input the arguments name, and whether it can be opened
  pc,       \* "start", "lines" (inside the for loop over lines()) or "done"
  cursor,   \* lines taken from lines() so far
  result,   \* "none" while running, then "ok", "err" or "panic"
  events,   \* effects so far, each with the line (0: none) it belongs to
  files     \* the working directory: file name -> Option<content>

vars == <<cmd, args, source, pc, cursor, result, events, files>>

Tag(out, line) ==
  [k \in 1..Len(out) |->
     [ch |-> out[k].ch, kind |-> out[k].kind, data |-> out[k].data, line |-> line]]

\* The directory after the writes among the effects of a handler.
RECURSIVE ApplyWrites(_, _)
ApplyWrites(fs, out) ==
  IF out = <<>> THEN fs
  ELSE LET e == Head(out)
       IN  ApplyWrites(IF e.ch = "file" /\ e.kind = "write"
                       THEN [fs EXCEPT ![e.data.name] = Some(e.data.bytes)]
                       ELSE fs,
                       Tail(out))

InitCommon ==
  /\ pc = "start"
  /\ cursor = 0
  /\ result = "none"
  /\ events = <<>>
  /\ files = [n \in FileNames |-> None]

InitDecode ==
  /\ cmd = "decode"
  /\ InitCommon
  /\ \E name \in {DecodeType[i] : i \in 1..Len(DecodeType)}, pretty \in BOOLEAN :
       \/ \E base64 \in BOOLEAN :
            /\ source \in {s \in LineSources({Ok(Encode64(RequestA))}) : Len(s.lines) <= 1}
            /\ args = [name |-> name, input |-> source.input, base64 |-> base64,
                       list |-> TRUE, pretty |-> pretty]
       \/ /\ source \in LineSources(DecodeLines)
          /\ args = [name |-> name, input |-> source.input, base64 |-> TRUE,
                     list |-> FALSE, pretty |-> pretty]
       \/ /\ source \in BinarySources
          /\ args = [name |-> name, input |-> source.input, base64 |-> FALSE,
                     list |-> FALSE, pretty |-> pretty]

InitSearch ==
  /\ cmd = "search"
  /\ InitCommon
  /\ source \in LineSources(SearchLines)
  /\ \E q \in Queries, verbose \in BOOLEAN, pretty \in BOOLEAN :
       args = [input |-> source.input, trace_id |-> q, verbose |-> verbose,
               pretty |-> pretty]

Init == InitDecode \/ InitSearch

\* ----------------------------------------------------- do_decode, stepwise
Finish(res) == pc' = "done" /\ result' = res

Banner == <<Ev("stderr", "decoding as proto", args.name)>>

\* The input source is taken: standard input is locked or File::open is
\* called on the path (which may fail).
Open == <<Ev("source", "open", args.input)>>

\* The bytes fill_buf() hands out: what one read of standard input put in
\* the buffer of Stdin.  That is the whole input only when it arrived in
\* that one read and fits the buffer; from a pipe that delivers in pieces,
\* or for an input longer than the buffer, it is a proper, non-empty
\* prefix.  The inputs of the model are shorter than the buffer, so the
\* short read stands for both.
FillBuf(bytes) ==
  IF bytes = <<>> THEN {<<>>} ELSE {SubSeq(bytes, 1, n) : n \in 1..Len(bytes)}

\* Mutant of DecodeList: the test of list comes after the input source is
\* opened, so a source that cannot be opened fails the listing.
DecodeList_AfterOpen ==
  /\ cmd = "decode" /\ pc = "start"
  /\ args.list
  /\ IF args.input = "-" \/ source.openable
     THEN /\ events' = events
               \o Tag(Open \o [i \in 1..Len(DecodeType) |->
                                 Ev("stdout", "catalog", DecodeType[i])], 0)
          /\ Finish("ok")
     ELSE events' = events \o Tag(Open, 0) /\ Finish("err")
  /\ UNCHANGED <<cmd, args, source, cursor, files>>

\* List mode: print every DecodeType and return.
DecodeList ==
  /\ cmd = "decode" /\ pc = "start"
  /\ args.list
  /\ events' = events
       \o Tag([i \in 1..Len(DecodeType) |-> Ev("stdout", "catalog", DecodeType[i])], 0)
  /\ Finish("ok")
  /\ UNCHANGED <<cmd, args, source, cursor, files>>

\* Streaming mode up to the loop: the banner, then standard input is locked
\* or the file is opened.
DecodeOpen ==
  /\ cmd = "decode" /\ pc = "start"
  /\ ~args.list /\ args.base64
  /\ events' = events \o Tag(Banner \o Open, 0)
  /\ IF args.input = "-" \/ source.openable
     THEN pc' = "lines" /\ UNCHANGED result
     ELSE Finish("err")
  /\ UNCHANGED <<cmd, args, source, cursor, files>>

\* Mutant of Handled: the effects of a line are put ahead of those of the
\* lines before it.
Handled_Ahead(text, r) ==
  /\ events' = Tag(<<Ev("reader", "line", text)>> \o r.out, cursor + 1) \o events
  /\ files' = ApplyWrites(files, r.out)
  /\ IF r.ok THEN UNCHANGED <<pc, result>> ELSE Finish("err")

\* The effects of a handler on line cursor + 1 are recorded; its error
\* leaves the command at once with `?`.
Handled(text, r) ==
  /\ events' = events \o Tag(<<Ev("reader", "line", text)>> \o r.out, cursor + 1)
  /\ files' = ApplyWrites(files, r.out)
  /\ IF r.ok THEN UNCHANGED <<pc, result>> ELSE Finish("err")

\* line.unwrap() panics on a line that could not be read.
Unreadable ==
  /\ events' = events \o Tag(<<Ev("reader", "error", <<>>)>>, cursor + 1)
  /\ Finish("panic")
  /\ UNCHANGED files

\* One turn of the loop: the next line is unwrapped and handed to
\* decode_struct_b64.
DecodeLine ==
  /\ cmd = "decode" /\ pc = "lines"
  /\ cursor < Len(source.lines)
  /\ cursor' = cursor + 1
  /\ IF ~source.lines[cursor + 1].ok THEN Unreadable
     ELSE \E rs \in Suffixes, writeOk \in BOOLEAN :
            Handled(source.lines[cursor + 1].val,
                    decode_struct_b64(args.name, source.lines[cursor + 1].val,
                                      args.pretty, rs, writeOk))
  /\ UNCHANGED <<cmd, args, source>>

\* lines() is exhausted: do_decode returns Ok(()).
DecodeEof ==
  /\ cmd = "decode" /\ pc = "lines"
  /\ cursor = Len(source.lines)
  /\ Finish("ok")
  /\ UNCHANGED <<cmd, args, source, cursor, events, files>>

\* The dispatcher was called on bytes with outcome r, whose error is the
\* result of the run.
Dispatched(bytes, r) ==
  /\ events' = events \o Tag(Banner \o Open \o Dispatch(bytes) \o r.out, 0)
  /\ Finish(IF r.ok THEN "ok" ELSE "err")

\* Binary mode: the banner, the bytes of the source, one call of the
\* dispatcher.
DecodeBinary ==
  /\ cmd = "decode" /\ pc = "start"
  /\ ~args.list /\ ~args.base64
  /\ IF args.input # "-" /\ ~source.openable
     THEN events' = events \o Tag(Banner \o Open, 0) /\ Finish("err")
     ELSE \E bytes \in (IF args.input = "-" THEN FillBuf(source.bytes)
                        ELSE {source.bytes}) :
            Dispatched(bytes, decode_struct(args.name, bytes, args.pretty))
  /\ UNCHANGED <<cmd, args, source, cursor, files>>

\* ----------------------------------------------------- do_search, stepwise
SearchOpen ==
  /\ cmd = "search" /\ pc = "start"
  /\ events' = events \o Tag(Open, 0)
  /\ IF args.input = "-" \/ source.openable
     THEN pc' = "lines" /\ UNCHANGED result
     ELSE Finish("err")
  /\ UNCHANGED <<cmd, args, source, cursor, files>>

\* One turn of the loop: the next line is unwrapped and handed to process.
SearchLine ==
  /\ cmd = "search" /\ pc = "lines"
  /\ cursor < Len(source.lines)
  /\ cursor' = cursor + 1
  /\ IF ~source.lines[cursor + 1].ok THEN Unreadable
     ELSE Handled(source.lines[cursor + 1].val,
                  process(source.lines[cursor + 1].val, args))
  /\ UNCHANGED <<cmd, args, source>>

SearchEof ==
  /\ cmd = "search" /\ pc = "lines"
  /\ cursor = Len(source.lines)
  /\ Finish("ok")
  /\ UNCHANGED <<cmd, args, source, cursor, events, files>>

\* ------------------------------------------------------ the specifications
NextDecode == DecodeList \/ DecodeOpen \/ DecodeLine \/ DecodeEof \/ DecodeBinary

NextSearch == SearchOpen \/ SearchLine \/ SearchEof

Next == NextDecode \/ NextSearch

SpecDecode == InitDecode /\ [][NextDecode]_vars

SpecSearch == InitSearch /\ [][NextSearch]_vars

Spec == Init /\ [][Next]_vars

\* ------------------------------------------------- reading the event log
\* Positions of the effects of one channel and kind that belong to a line.
At(ch, kind, line) ==
  {k \in 1..Len(events) :
     events[k].ch = ch /\ events[k].kind = kind /\ events[k].line = line}

Count(ch, kind, line) == Cardinality(At(ch, kind, line))

\* Everything line i put on standard output.
StdoutOf(line) == {k \in 1..Len(events) : events[k].ch = "stdout" /\ events[k].line = line}

\* Lines the loop has taken and unwrapped.
ReadLines == {i \in 1..cursor : source.lines[i].ok}

Bytes64(i) == decode_config(source.lines[i].val)

InvalidBase64(i) == ~Bytes64(i).ok

\* The line is base64 of bytes that the codec of the shape rejects.
WireFails(i, shape) ==
  Bytes64(i).ok /\ shape # "Direct" /\ ~decode(shape, Bytes64(i).val).ok

\* The line is base64 of bytes that the shape accepts.
ValidFor(i, shape) ==
  Bytes64(i).ok /\ (shape = "Direct" \/ decode(shape, Bytes64(i).val).ok)

Streaming == cmd = "decode" /\ ~args.list /\ args.base64

Binary == cmd = "decode" /\ ~args.list /\ ~args.base64

\* The run stopped at line i without having exhausted its input in success.
StoppedAt(i) ==
  pc = "done" /\ cursor = i /\ ~(result = "ok" /\ i = Len(source.lines))

\* ------------------------------------------------------------------ claims
\* C1: in streaming decode mode an input whose lines are valid for the
\* selected shape except for lines of invalid base64 (at least one) is
\* processed to its end: the run returns success, every valid line has put
\* one message on standard output and every invalid line has one side file.
C1_BadBase64DoesNotAbort ==
  (/\ Streaming /\ pc = "done"
   /\ args.input = "-" \/ source.openable
   /\ \A i \in 1..Len(source.lines) :
        source.lines[i].ok /\ (InvalidBase64(i) \/ ValidFor(i, args.name))
   /\ \E i \in 1..Len(source.lines) : InvalidBase64(i))
  => /\ result = "ok"
     /\ \A i \in 1..Len(source.lines) :
          IF InvalidBase64(i) THEN Count("file", "write", i) = 1
          ELSE Count("stdout", "msg", i) = 1

\* No side-file write of the run has failed.
NoWriteFailed == \A k \in 1..Len(events) : events[k].kind # "write failed"

\* C2: in streaming decode mode a line that is valid base64 of bytes the
\* selected shape rejects is recovered locally once its side file is
\* written: the name of the file is echoed and the run does not stop at
\* that line (the loop goes on to the next line, and returns success when
\* it was the last).  An input of readable, valid-base64 lines, whatever
\* the codec makes of them, is therefore processed to its last line and
\* ends in success, as long as no side-file write fails.
C2_WireFailureRecovered ==
  Streaming =>
    /\ \A i \in ReadLines :
         (WireFails(i, args.name) /\ Count("file", "write", i) = 1)
         => /\ ~StoppedAt(i)
            /\ Count("stderr", "data dumped as", i) = 1
    /\ (/\ pc = "done" /\ NoWriteFailed
        /\ args.input = "-" \/ source.openable
        /\ \A i \in 1..Len(source.lines) : source.lines[i].ok /\ Bytes64(i).ok)
       => /\ result = "ok" /\ cursor = Len(source.lines)
          /\ \A i \in 1..Len(source.lines) : Count("call", "decode_struct", i) = 1

\* C2 witness: a line after a quarantined one has been read and decoded.
C2_Witness ==
  /\ Streaming
  /\ \E i \in ReadLines :
       /\ WireFails(i, args.name) /\ Count("file", "write", i) = 1
       /\ i < cursor /\ (i + 1) \in ReadLines
       /\ Count("call", "decode_struct", i + 1) = 1

\* C3: every line read in streaming decode mode ends with exactly one
\* message on standard output and no side file, or with exactly one side
\* file and nothing on standard output.
C3_EmittedOrQuarantined ==
  Streaming =>
    \A i \in ReadLines :
      \/ Count("stdout", "msg", i) = 1 /\ Count("file", "write", i) = 0
      \/ Count("file", "write", i) = 1 /\ StdoutOf(i) = {}

\* C4: in binary mode the dispatcher is called exactly once, on the entire
\* content of the input source, for a file and for standard input alike.
C4_BinaryHandsWholeInput ==
  (Binary /\ pc = "done" /\ (args.input = "-" \/ source.openable))
  => /\ Count("call", "decode_struct", 0) = 1
     /\ \A k \in At("call", "decode_struct", 0) : events[k].data = source.bytes

\* The one value a set of event positions holds, for a set of one.
TheEvent(ks) == events[CHOOSE k \in ks : TRUE]

\* What the dispatcher must print for a payload the selector accepts.
WholeMessage(name, payload) ==
  [shape |-> name,
   body |-> IF name = "Direct" THEN payload ELSE decode(name, payload).val]

\* The dispatcher was called for this line (0: binary mode) on a payload and
\* printed the whole message once, printing nothing ahead of the codec.
PrintedWhole(line, payload) ==
  /\ Count("stdout", "msg", line) = 1
  /\ TheEvent(At("stdout", "msg", line)).data.obj = WholeMessage(args.name, payload)
  /\ \A k \in At("stdout", "msg", line), c \in At("codec", args.name, line) : c < k

\* C5: the dispatcher never produces partial output.  Each call of
\* decode_struct either decodes the whole payload, prints that one message
\* and returns Ok, or fails and leaves standard output untouched; in
\* binary mode the failure is the result of the run and no side file exists.
C5_NoPartialOutput ==
  /\ Binary /\ pc = "done" =>
       \A k \in At("call", "decode_struct", 0) :
         LET payload  == events[k].data
             accepted == args.name = "Direct" \/ decode(args.name, payload).ok
         IN  IF accepted
             THEN result = "ok" /\ PrintedWhole(0, payload)
             ELSE /\ result = "err"
                  /\ StdoutOf(0) = {}
                  /\ \A n \in FileNames : files[n] = None
                  /\ \A e \in 1..Len(events) : events[e].ch # "file"
  /\ Streaming =>
       \A i \in ReadLines : \A k \in At("call", "decode_struct", i) :
         LET payload  == events[k].data
             accepted == args.name = "Direct" \/ decode(args.name, payload).ok
         IN  IF accepted
             THEN PrintedWhole(i, payload) /\ Count("stderr", "error during decoding", i) = 0
             ELSE StdoutOf(i) = {} /\ Count("stderr", "error during decoding", i) = 1

\* C5 witness: a binary run whose payload the selected shape rejects.
C5_Witness ==
  /\ Binary /\ pc = "done" /\ result = "err"
  /\ \E k \in At("call", "decode_struct", 0) :
       Len(events[k].data) > 1 /\ ~decode(args.name, events[k].data).ok

\* ------------------------------------------------------- claims on search
\* The decoded request of a line of a search run.
RequestOf(i) == decode("ExportTraceServiceRequest", Bytes64(i).val)

Decodable(i) == Bytes64(i).ok /\ RequestOf(i).ok

\* Some span of the request, at any place of the nesting, has a trace id
\* whose hex rendering equals id.
HasMatch(body, id) ==
  \E r \in 1..Len(Repeated(body, 1)) :
    LET scopes == Repeated(Repeated(body, 1)[r], 2)
    IN  \E c \in 1..Len(scopes) :
          LET spans == Repeated(scopes[c], 2)
          IN  \E p \in 1..Len(spans) : encode_hex(Singular(spans[p], 1)) = id

Querying == cmd = "search" /\ args.trace_id # None

\* C6: in a search run with a query, a line whose request holds at least
\* one span with the queried trace id puts the whole request on standard
\* output exactly once, however many spans match.
C6_MatchEmitsRequestOnce ==
  Querying =>
    \A i \in ReadLines :
      (Decodable(i) /\ HasMatch(RequestOf(i).val, args.trace_id[1]))
      => /\ Count("stdout", "msg", i) = 1
         /\ TheEvent(At("stdout", "msg", i)).data
              = [obj |-> [shape |-> "ExportTraceServiceRequest", body |-> RequestOf(i).val],
                 pretty |-> args.pretty]

\* C6 witness: a processed line with two matching spans, neither the first
\* span of the request.
C6_Witness ==
  /\ Querying
  /\ \E i \in ReadLines :
       /\ Decodable(i)
       /\ LET ids == TraceIds(RequestOf(i).val)
          IN  /\ ids # <<>> /\ ids[1] # args.trace_id[1]
              /\ Cardinality({k \in 1..Len(ids) : ids[k] = args.trace_id[1]}) >= 2
       /\ Count("stdout", "msg", i) = 1

\* C7: in a search run with a query and verbose off, a line whose request
\* holds no span with the queried trace id puts nothing on standard output,
\* and process returns Ok (the run does not stop at that line).
C7_NoMatchIsSilent ==
  (Querying /\ ~args.verbose) =>
    \A i \in ReadLines :
      (Decodable(i) /\ ~HasMatch(RequestOf(i).val, args.trace_id[1]))
      => StdoutOf(i) = {} /\ ~StoppedAt(i)

\* C7 witness: a processed line whose request has spans, none matching, and
\* one whose request has no span at all.
C7_Witness ==
  /\ Querying /\ ~args.verbose
  /\ \E i \in ReadLines :
       /\ Decodable(i) /\ TraceIds(RequestOf(i).val) # <<>>
       /\ ~HasMatch(RequestOf(i).val, args.trace_id[1])
  /\ \E i \in ReadLines : Decodable(i) /\ TraceIds(RequestOf(i).val) = <<>>

\* The trace ids line i put on standard output, in order.
RECURSIVE IdsPrinted(_, _)
IdsPrinted(line, k) ==
  IF k > Len(events) THEN <<>>
  ELSE (IF events[k].line = line /\ events[k].kind = "trace_id"
        THEN <<events[k].data>> ELSE <<>>) \o IdsPrinted(line, k + 1)

\* C8: in a verbose search run with a query, a line whose request holds N
\* spans emits exactly N trace ids, one per span, in resource-major,
\* scope-minor, span-innermost order, whichever span matches.
C8_VerboseListsEverySpan ==
  (Querying /\ args.verbose) =>
    \A i \in ReadLines :
      Decodable(i) => IdsPrinted(i, 1) = TraceIds(RequestOf(i).val)

\* C9: the trace ids a verbose search visits never go to standard output:
\* standard output of a search run holds whole requests only.
C9_IdsNotOnStdout ==
  cmd = "search" =>
    \A k \in 1..Len(events) : events[k].ch = "stdout" => events[k].kind = "msg"

\* C10: a search run does not stop at a line that fails base64 decoding or
\* fails to decode as ExportTraceServiceRequest: later lines are processed
\* and the run ends in success when the input is exhausted.
C10_SearchRecoversBadLine ==
  cmd = "search" =>
    \A i \in ReadLines : ~Decodable(i) => ~StoppedAt(i)

\* ------------------------------------------------ claims on the dispatcher
\* C11: for each of the 13 concrete shapes, a call of the dispatcher on the
\* empty byte sequence fails with a codec error: nothing is printed for it,
\* in binary mode the run ends with that error and in streaming mode the
\* error is reported for the line.
C11_EmptyInputRejected ==
  (cmd = "decode" /\ args.name # "Direct") =>
    \A k \in 1..Len(events) :
      (events[k].kind = "decode_struct" /\ events[k].data = <<>>)
      => /\ StdoutOf(events[k].line) = {}
         /\ (Binary /\ pc = "done") => result = "err"
         /\ Streaming => Count("stderr", "error during decoding", events[k].line) = 1

\* C12: with the Direct selector no codec is ever called, and every call of
\* the dispatcher, whatever its bytes, prints exactly those bytes once on
\* standard output and returns Ok: no error is reported, no side file is
\* written and the run does not stop at that call with an error.
C12_DirectNeverFails ==
  (cmd = "decode" /\ args.name = "Direct") =>
    /\ \A k \in 1..Len(events) : events[k].ch \notin {"codec", "file"}
    /\ \A k \in 1..Len(events) :
         events[k].kind = "decode_struct"
         => /\ Count("stdout", "msg", events[k].line) = 1
            /\ TheEvent(At("stdout", "msg", events[k].line)).data
                 = [obj |-> [shape |-> "Direct", body |-> events[k].data],
                    pretty |-> args.pretty]
            /\ Count("stderr", "error during decoding", events[k].line) = 0
            /\ ~(pc = "done" /\ cursor = events[k].line /\ result # "ok")

\* C12 witness: a finished Direct run that printed, once, bytes that no
\* shape decodes.
C12_Witness ==
  /\ cmd = "decode" /\ args.name = "Direct" /\ pc = "done" /\ result = "ok"
  /\ \E k \in 1..Len(events) :
       /\ events[k].kind = "decode_struct" /\ events[k].data = <<255>>
       /\ \A i \in 1..Len(Shapes) : ~decode(Shapes[i], events[k].data).ok
       /\ Count("stdout", "msg", events[k].line) = 1

\* C13: a search run without a query matches nothing.  No decodable line
\* puts anything on standard output or stops the run, verbose or not, and an
\* input of decodable lines only is read to its end and ends in success
\* with standard output empty.
C13_NoQueryMatchesNothing ==
  (cmd = "search" /\ args.trace_id = None) =>
    /\ \A i \in ReadLines : Decodable(i) => StdoutOf(i) = {} /\ ~StoppedAt(i)
    /\ (/\ pc = "done"
        /\ args.input = "-" \/ source.openable
        /\ \A i \in 1..Len(source.lines) : source.lines[i].ok /\ Decodable(i))
       => /\ result = "ok" /\ cursor = Len(source.lines)
          /\ \A i \in 1..Len(source.lines) :
               Count("codec", "ExportTraceServiceRequest", i) = 1
          /\ \A k \in 1..Len(events) : events[k].ch # "stdout"

\* C13 witness: a finished verbose run without a query over two requests
\* that hold spans.
C13_Witness ==
  /\ cmd = "search" /\ args.trace_id = None /\ args.verbose
  /\ pc = "done" /\ result = "ok" /\ cursor = 2
  /\ \A i \in 1..2 :
       /\ source.lines[i].ok /\ Decodable(i) /\ TraceIds(RequestOf(i).val) # <<>>
       /\ Count("codec", "ExportTraceServiceRequest", i) = 1

\* The selector values, as a set.
Selectors == {DecodeType[i] : i \in 1..Len(DecodeType)}

\* C14: the dispatcher is total and tag-preserving over the 14 selectors.
\* The selectors are 14 distinct names, Direct and the 13 shapes; every call
\* of decode_struct runs one case: for Direct no codec, for a shape the
\* codec of that name, once, on the payload of the call; and a message
\* printed for the call carries the selector as its shape and is what the
\* codec of that shape makes of the payload.
C14_DispatchPreservesTag ==
  cmd = "decode" =>
    /\ Len(DecodeType) = 14 /\ Cardinality(Selectors) = 14
    /\ Selectors = {"Direct"} \cup {Shapes[i] : i \in 1..Len(Shapes)}
    /\ args.name \in Selectors
    /\ \A k \in 1..Len(events) :
         events[k].ch = "codec"
         => /\ args.name # "Direct" /\ events[k].kind = args.name
            /\ Count("call", "decode_struct", events[k].line) = 1
            /\ events[k].data
                 = TheEvent(At("call", "decode_struct", events[k].line)).data
    /\ \A k \in 1..Len(events) :
         events[k].kind = "decode_struct"
         => /\ Cardinality({c \in 1..Len(events) :
                              events[c].ch = "codec" /\ events[c].line = events[k].line})
                 = (IF args.name = "Direct" THEN 0 ELSE 1)
            /\ \A p \in At("stdout", "msg", events[k].line) :
                 events[p].data.obj = WholeMessage(args.name, events[k].data)

\* C14 witness: a message of a shape other than the default one was
\* printed, its body not empty.
C14_Witness ==
  /\ cmd = "decode" /\ args.name = "ExportMetricsServiceRequest"
  /\ \E p \in 1..Len(events) :
       /\ events[p].kind = "msg"
       /\ events[p].data.obj.shape = "ExportMetricsServiceRequest"
       /\ events[p].data.obj.body = decode("ExportMetricsServiceRequest", RequestM).val
       /\ events[p].data.obj.body # <<>>

\* C15: in list mode do_decode prints the 14 selector names, in declaration
\* order, and returns success, and that is all it does: the input source is
\* not opened, no line is read, the dispatcher and the codec are not called,
\* nothing goes to standard error and no side file exists, whatever the
\* selector, the other flags and the input argument are.
C15_ListModeOnlyLists ==
  (cmd = "decode" /\ args.list) =>
    /\ cursor = 0
    /\ \A n \in FileNames : files[n] = None
    /\ pc # "done" => events = <<>> /\ result = "none"
    /\ pc = "done" =>
         /\ result = "ok"
         /\ Len(events) = 14
         /\ \A i \in 1..Len(events) :
              events[i] = [ch |-> "stdout", kind |-> "catalog",
                           data |-> DecodeType[i], line |-> 0]

\* C15 witness: a finished listing whose input argument names a file that
\* cannot be opened, with the streaming flag set.
C15_Witness ==
  /\ cmd = "decode" /\ args.list /\ args.base64
  /\ args.input # "-" /\ ~source.openable
  /\ pc = "done" /\ Len(events) = 14

\* ------------------------------------------- claims on the order of effects
\* A line-oriented run: streaming decode or search.
LineRun == Streaming \/ cmd = "search"

\* The effects that belong to a line, in the order they happened.
EventsOf(line) == SelectSeq(events, LAMBDA e : e.line = line)

\* What the handler of the run does with a line of text, taken alone: the
\* possible sequences of effects, one for each outcome of the environment
\* (the random suffix, the success of the write).
AloneOn(text) ==
  IF cmd = "search" THEN {process(text, args).out}
  ELSE {decode_struct_b64(args.name, text, args.pretty, rs, writeOk).out :
          rs \in Suffixes, writeOk \in BOOLEAN}

\* The handling of line i has come to its end with Ok: in a decode run the
\* line is emitted or quarantined, in a search run it is decoded and
\* searched.
Completed(i) ==
  /\ source.lines[i].ok /\ Bytes64(i).ok
  /\ IF cmd = "search" THEN Count("codec", "ExportTraceServiceRequest", i) = 1
     ELSE \/ Count("stdout", "msg", i) = 1 /\ Count("file", "write", i) = 0
          \/ /\ Count("stdout", "msg", i) = 0 /\ Count("file", "write", i) = 1
             /\ Count("stderr", "data dumped as", i) = 1

\* C16: in streaming decode and in search, lines are handled one after the
\* other in input order.  The effects of the run are grouped by line in
\* increasing line order (so standard output follows the input order), each
\* line taken from the reader has one read, which comes before its other
\* effects, a line is read only when the handling of the line before it has
\* come to its end with Ok, and what a line brings about is what its
\* handler does for that line alone with the arguments of the run, whatever
\* the lines before it were.
C16_LinesInOrder ==
  LineRun =>
    /\ \A k \in 1..Len(events) : \A j \in 1..(k - 1) : events[j].line <= events[k].line
    /\ \A k \in 1..Len(events) : events[k].line \in 0..cursor
    /\ \A i \in 1..cursor :
         /\ EventsOf(i) # <<>> /\ EventsOf(i)[1].ch = "reader"
         /\ Cardinality({k \in 1..Len(events) :
                           events[k].ch = "reader" /\ events[k].line = i}) = 1
         /\ i > 1 => Completed(i - 1)
    /\ \A i \in ReadLines :
         \E out \in AloneOn(source.lines[i].val) :
           EventsOf(i) = Tag(<<Ev("reader", "line", source.lines[i].val)>> \o out, i)

\* C16 witness: two lines were handled and each put a message on standard
\* output, the second being a different line from the first.
C16_Witness ==
  /\ LineRun /\ cursor = 2 /\ ReadLines = {1, 2}
  /\ source.lines[1] # source.lines[2]
  /\ Count("stdout", "msg", 1) = 1 /\ Count("stdout", "msg", 2) = 1
  /\ \A a \in At("stdout", "msg", 1), b \in At("stdout", "msg", 2) : a < b

\* C17: when a streaming line is quarantined the steps come in a fixed
\* order.  Every side file written holds exactly the base64-decoded bytes
\* of its line and is written right after the decode error of that line
\* went to standard error and right before its own name is echoed there;
\* every name echoed is the name of the file written just before it, which
\* exists; and a line whose write failed echoes no name.
C17_QuarantineOrder ==
  Streaming =>
    \A k \in 1..Len(events) :
      /\ (events[k].ch = "file" /\ events[k].kind = "write") =>
           /\ events[k].line \in ReadLines
           /\ Bytes64(events[k].line).ok
           /\ events[k].data.bytes = Bytes64(events[k].line).val
           /\ events[k].data.name \in FileNames
           /\ files[events[k].data.name] # None
           /\ k > 1 /\ k < Len(events)
           /\ events[k - 1].ch = "stderr"
           /\ events[k - 1].kind = "error during decoding"
           /\ events[k - 1].line = events[k].line
           /\ events[k + 1] = [ch |-> "stderr", kind |-> "data dumped as",
                               data |-> events[k].data.name, line |-> events[k].line]
      /\ events[k].kind = "data dumped as" =>
           /\ k > 1
           /\ events[k - 1].ch = "file" /\ events[k - 1].kind = "write"
           /\ events[k - 1].line = events[k].line
           /\ events[k - 1].data.name = events[k].data
      /\ events[k].kind = "error during decoding" =>
           /\ k < Len(events)
           /\ events[k + 1].ch = "file" /\ events[k + 1].line = events[k].line
      /\ events[k].kind = "write failed" =>
           Count("stderr", "data dumped as", events[k].line) = 0

\* C17 witness: a quarantined line whose bytes are not empty, with its side
\* file in the working directory, and a line whose write failed.
C17_Witness ==
  /\ Streaming
  /\ \E k \in 1..Len(events) :
       /\ events[k].ch = "file" /\ events[k].kind = "write"
       /\ events[k].data.bytes # <<>>
       /\ files[events[k].data.name] = Some(events[k].data.bytes)
  /\ \E k \in 1..Len(events) : events[k].kind = "write failed"

\* C18: in streaming decode mode a failed write of the side file is not
\* recovered.  It is the last thing the run does: the run is over with an
\* error at that line, no name is echoed for the line, no file was created
\* by it, and no later line is read or processed.
C18_WriteFailureStopsRun ==
  Streaming =>
    \A k \in 1..Len(events) :
      events[k].kind = "write failed" =>
        /\ k = Len(events)
        /\ pc = "done" /\ result = "err"
        /\ cursor = events[k].line
        /\ Count("stderr", "data dumped as", events[k].line) = 0
        /\ Count("file", "write", events[k].line) = 0
        /\ \A j \in 1..Len(events) : events[j].line <= events[k].line

\* C18 witness: the write failed on the first of two lines; the second was
\* never read.
C18_Witness ==
  /\ Streaming /\ pc = "done" /\ result = "err"
  /\ Len(source.lines) = 2 /\ cursor = 1
  /\ \E k \in 1..Len(events) : events[k].kind = "write failed" /\ events[k].line = 1
  /\ Count("reader", "line", 2) = 0

====
